---- MODULE Spec2Model ----
(***************************************************************************)
(* Model of erysa/structs/multi_process_workflow.py: the workflow object   *)
(* MultiProcessWorkflow, its executor execute_task and its four dispatch   *)
(* methods run, async_run, batched_run and concurrent_run.                 *)
(*                                                                         *)
(* A worker (agent) is identified by its position in self.agents; its run  *)
(* capability is deterministic: it raises on the tasks of its fail set and *)
(* otherwise returns a value that names the worker and the task.           *)
(* A job of a pool is pending, running or done; execute_task runs without  *)
(* suspension, so its whole effect happens in the step that finishes the   *)
(* job.                                                                    *)
(***************************************************************************)
EXTENDS Integers, Sequences, FiniteSets, TLC

\* ---------------------------------------------------------------- bounds
MaxAgents == 2      \* longest worker set
MaxTasks == 3       \* longest task list
MaxLimit == 2       \* largest max_workers argument
MaxBatch == 2       \* largest batch_size argument
CpuCount == 2       \* what cpu_count() answers on the machine

VARIABLES max_workers, agents, pc, method, task, tasks, batch_size,
          i, jobs, results, ret, invocations, batches, submitted, completed,
          prev,
          script, threads, joined, main_pc

\* the state of a workflow object and of its current dispatch call
wfvars == <<max_workers, agents, pc, method, task, tasks, batch_size,
            i, jobs, results, ret, invocations, batches, submitted, completed,
            prev>>

\* the state of main() of a generator script (scripts/auto_tests_docs)
mainvars == <<script, threads, joined, main_pc>>

vars == <<wfvars, mainvars>>

\* ---------------------------------------------------------------- values
Min(a, b) == IF a < b THEN a ELSE b

SeqUpTo(S, n) == UNION {[1..k -> S] : k \in 0..n}

\* an int-or-None value (max_workers)
NoneLimit == [none |-> TRUE, n |-> 0]
IntLimit(n) == [none |-> FALSE, n |-> n]

\* a list-or-None value (agents)
NoneAgents == [none |-> TRUE, list |-> <<>>]
AgentList(s) == [none |-> FALSE, list |-> s]

\* what a job yields: a worker's value, the failure marker None, or an
\* exception that left execute_task
None == [kind |-> "None", w |-> 0, t |-> 0]
Value(w, t) == [kind |-> "value", w |-> w, t |-> t]
Raised == [kind |-> "raised", w |-> 0, t |-> 0]

\* what a dispatch call yields
Pending == [kind |-> "pending", list |-> <<>>]
ReturnNone == [kind |-> "None", list |-> <<>>]
ReturnList(s) == [kind |-> "list", list |-> s]
ReturnRaised == [kind |-> "raised", list |-> <<>>]

\* during an async_run call that directly follows an async_run call: the
\* task and the outcome of that preceding call
NoPrev == [set |-> FALSE, task |-> [id |-> 0, has_timeout |-> FALSE], ret |-> Pending]

\* the sets a worker raises on
FailSets == {{}, {1}, 1..MaxTasks}

Job(t) == [task |-> t, state |-> "pending", result |-> None, collected |-> FALSE]

\* ----------------------------------------------------------- constructor
\* __init__: the argument is stored; the expression statement
\* "self.max_workers or cpu_count()" assigns nothing.
Construct(arg) == arg

LimitArgs == {NoneLimit} \cup {IntLimit(n) : n \in 0..MaxLimit}

AgentArgs == {NoneAgents} \cup {AgentList(s) : s \in SeqUpTo(FailSets, MaxAgents)}

Init ==
    /\ max_workers \in {Construct(a) : a \in LimitArgs}
    /\ agents \in AgentArgs
    /\ pc = "idle"
    /\ method = "none"
    /\ task = [id |-> 0, has_timeout |-> FALSE]
    /\ tasks = <<>>
    /\ batch_size = 0
    /\ i = 0
    /\ jobs = <<>>
    /\ results = <<>>
    /\ ret = Pending
    /\ invocations = [a \in {} |-> 0]
    /\ batches = <<>>
    /\ submitted = 0
    /\ completed = 0
    /\ prev = NoPrev
    /\ script = "none"
    /\ threads = <<>>
    /\ joined = 0
    /\ main_pc = "off"

\* ---------------------------------------------------------- execute_task
\* agent.run(task): raises on the tasks of the agent's fail set
AgentRunRaises(agent, t) == t \in agent

\* the for loop of execute_task from index k on: whether a run raised, and
\* the index of the last agent that was invoked
RECURSIVE AgentLoop(_, _, _)
AgentLoop(ags, t, k) ==
    IF k > Len(ags) THEN [raised |-> FALSE, last |-> k - 1]
    ELSE IF AgentRunRaises(ags[k], t) THEN [raised |-> TRUE, last |-> k]
    ELSE AgentLoop(ags, t, k + 1)

\* variant: the exception leaves execute_task
ExecuteTaskExcept_Propagates == Raised

\* the except clause of execute_task
ExecuteTaskExcept == None

\* variant: "return result" sits inside the for loop
execute_task_FirstResult(ags, t) ==
    IF ags.none \/ Len(ags.list) = 0 THEN [result |-> ExecuteTaskExcept, invoked |-> 0]
    ELSE IF AgentRunRaises(ags.list[1], t) THEN [result |-> ExecuteTaskExcept, invoked |-> 1]
    ELSE [result |-> Value(1, t), invoked |-> 1]

\* execute_task(task): the outcome and how many agents were invoked.  With
\* agents None or empty no iteration binds "result", and "return result"
\* raises UnboundLocalError inside the try.
execute_task(ags, t) ==
    LET loop == IF ags.none THEN [raised |-> FALSE, last |-> 0]
                ELSE AgentLoop(ags.list, t, 1)
    IN  IF loop.raised THEN [result |-> ExecuteTaskExcept, invoked |-> loop.last]
        ELSE IF loop.last = 0 THEN [result |-> ExecuteTaskExcept, invoked |-> 0]
        ELSE [result |-> Value(loop.last, t), invoked |-> loop.last]

\* ------------------------------------------------------------------ pools
\* variant: a pool of zero processes is accepted
PoolRaises_ZeroAccepted(mw) == ~mw.none /\ mw.n < 0

\* Pool(processes=n) raises ValueError for n < 1; None means cpu_count()
PoolRaises(mw) == ~mw.none /\ mw.n < 1
PoolSize(mw) == IF mw.none THEN CpuCount ELSE mw.n

\* ThreadPoolExecutor(max_workers=n) raises ValueError for n <= 0; None
\* means min(32, cpu_count() + 4)
ExecutorRaises(mw) == ~mw.none /\ mw.n <= 0
ExecutorSize(mw) == IF mw.none THEN Min(32, CpuCount + 4) ELSE mw.n

\* variant: the pool keeps one of its workers out of use
Slots_OneLess == IF method \in {"run", "batched_run"} THEN PoolSize(max_workers) - 1
                 ELSE ExecutorSize(max_workers) - 1

\* variant: the pool is sized by the number of submitted jobs
Slots_PerJob == Len(jobs)

\* the number of jobs the pool of the current call executes at a time
Slots == IF method \in {"run", "batched_run"} THEN PoolSize(max_workers)
         ELSE ExecutorSize(max_workers)

Running == {j \in 1..Len(jobs) : jobs[j].state = "running"}
AllDone == \A j \in 1..Len(jobs) : jobs[j].state = "done"

\* the except clauses of the dispatch methods
RunExcept == ReturnNone
AsyncRunExcept == ReturnNone
BatchedRunExcept == ReturnNone
ConcurrentRunExcept == ReturnNone

\* -------------------------------------------------------------- the calls
Callable == pc \in {"idle", "returned"}

Enter(m, t, ts, k, label) ==
    /\ Callable
    /\ method' = m
    /\ task' = t
    /\ tasks' = ts
    /\ batch_size' = k
    /\ pc' = label
    /\ i' = 0
    /\ jobs' = <<>>
    /\ results' = <<>>
    /\ ret' = Pending
    /\ batches' = <<>>
    /\ submitted' = 0
    /\ completed' = 0
    /\ invocations' = [a \in 1..Len(agents.list) |-> 0]
    /\ prev' = IF pc = "returned" /\ method = "async_run" /\ m = "async_run"
               THEN [set |-> TRUE, task |-> task, ret |-> ret]
               ELSE NoPrev
    /\ UNCHANGED <<mainvars, max_workers, agents>>

TaskArgs == {[id |-> n, has_timeout |-> b] : n \in 1..2, b \in BOOLEAN}
NoTask == [id |-> 0, has_timeout |-> FALSE]
TaskLists == {[n \in 1..m |-> n] : m \in 0..MaxTasks}
BatchSizes == (-1)..MaxBatch

CallRun == \E t \in TaskArgs : Enter("run", t, <<>>, 0, "run")
CallAsyncRun == \E t \in TaskArgs : Enter("async_run", t, <<>>, 0, "async_run")
CallBatchedRun ==
    \E ts \in TaskLists, k \in BatchSizes : Enter("batched_run", NoTask, ts, k, "batched_run")
CallConcurrentRun ==
    \E ts \in TaskLists : Enter("concurrent_run", NoTask, ts, 0, "concurrent_run")

Return(r) ==
    /\ ret' = r
    /\ pc' = "returned"

\* -------------------------------------------------------------------- run
\* variant: apply_async takes the timeout, and only a task without the
\* attribute raises
ApplyAsyncRaises_TimeoutAccepted(t) == ~t.has_timeout

\* pool.apply_async(..., timeout=task.timeout): a task without the attribute
\* raises AttributeError; with it, apply_async has no timeout parameter and
\* raises TypeError.
ApplyAsyncRaises(t) == IF t.has_timeout THEN TRUE ELSE TRUE

\* run up to the end of the list comprehension that submits the jobs
RunSubmit ==
    /\ pc = "run"
    /\ IF PoolRaises(max_workers) \/ agents.none
       THEN Return(RunExcept) /\ UNCHANGED <<jobs, submitted>>
       ELSE IF Len(agents.list) > 0 /\ ApplyAsyncRaises(task)
       THEN Return(RunExcept) /\ UNCHANGED <<jobs, submitted>>
       ELSE /\ jobs' = [a \in 1..Len(agents.list) |-> Job(task.id)]
            /\ submitted' = submitted + Len(agents.list)
            /\ pc' = "run_join"
            /\ UNCHANGED ret
    /\ UNCHANGED <<mainvars, max_workers, agents, prev, method, task, tasks, batch_size,
                   i, results, invocations, batches, completed>>

\* "for job in jobs: job.get()", then results = list(results_list)
RunJoin ==
    /\ pc = "run_join"
    /\ AllDone
    /\ IF \E j \in 1..Len(jobs) : jobs[j].result.kind = "raised"
       THEN Return(RunExcept)
       ELSE Return(ReturnList(results))
    /\ UNCHANGED <<mainvars, max_workers, agents, prev, method, task, tasks, batch_size,
                   i, jobs, results, invocations, batches, submitted, completed>>

\* -------------------------------------------------------- jobs of a pool
Waiting == pc \in {"run_join", "as_completed", "executor_exit", "pool_map"}

\* a free pool slot takes a pending job
JobStart(j) ==
    /\ Waiting
    /\ jobs[j].state = "pending"
    /\ Cardinality(Running) < Slots
    /\ jobs' = [jobs EXCEPT ![j].state = "running"]
    /\ UNCHANGED <<mainvars, max_workers, agents, prev, pc, method, task, tasks, batch_size,
                   i, results, ret, invocations, batches, submitted, completed>>

\* the job's execute_task call runs to its end; in run the completion
\* callback results_list.append takes the outcome
JobFinish(j) ==
    /\ Waiting
    /\ jobs[j].state = "running"
    /\ LET out == execute_task(agents, jobs[j].task)
       IN  /\ jobs' = [jobs EXCEPT ![j].state = "done", ![j].result = out.result]
           /\ invocations' = [a \in DOMAIN invocations |->
                                invocations[a] + IF a <= out.invoked THEN 1 ELSE 0]
           /\ results' = IF method = "run" /\ out.result.kind # "raised"
                         THEN Append(results, out.result) ELSE results
    /\ completed' = completed + 1
    /\ UNCHANGED <<mainvars, max_workers, agents, prev, pc, method, task, tasks, batch_size,
                   i, ret, batches, submitted>>

\* -------------------------------------------- async_run, concurrent_run
\* the executor is built and one future per agent is submitted
AsyncRunSubmit ==
    /\ pc = "async_run"
    /\ IF ExecutorRaises(max_workers) \/ agents.none
       THEN Return(AsyncRunExcept) /\ UNCHANGED <<jobs, submitted>>
       ELSE /\ jobs' = [a \in 1..Len(agents.list) |-> Job(task.id)]
            /\ submitted' = submitted + Len(agents.list)
            /\ pc' = "as_completed"
            /\ UNCHANGED ret
    /\ UNCHANGED <<mainvars, max_workers, agents, prev, method, task, tasks, batch_size,
                   i, results, invocations, batches, completed>>

\* the executor is built and one future per task is submitted
ConcurrentRunSubmit ==
    /\ pc = "concurrent_run"
    /\ IF ExecutorRaises(max_workers)
       THEN Return(ConcurrentRunExcept) /\ UNCHANGED <<jobs, submitted>>
       ELSE /\ jobs' = [n \in 1..Len(tasks) |-> Job(tasks[n])]
            /\ submitted' = submitted + Len(tasks)
            /\ pc' = "as_completed"
            /\ UNCHANGED ret
    /\ UNCHANGED <<mainvars, max_workers, agents, prev, method, task, tasks, batch_size,
                   i, results, invocations, batches, completed>>

ThreadExcept == IF method = "async_run" THEN AsyncRunExcept ELSE ConcurrentRunExcept

\* variant: futures are yielded in submission order, finished or not
Completed_AnyFuture(j) == ~jobs[j].collected

\* a future as_completed may yield: done and not yet yielded
Completed(j) == jobs[j].state = "done" /\ ~jobs[j].collected

\* variant: only outcomes that are not None are appended
AsCompleted_DropsFailures(j) ==
    /\ pc = "as_completed"
    /\ Completed(j)
    /\ jobs' = [jobs EXCEPT ![j].collected = TRUE]
    /\ results' = IF jobs[j].result.kind = "None" THEN results
                  ELSE Append(results, jobs[j].result)
    /\ UNCHANGED <<mainvars, max_workers, agents, prev, pc, method, task, tasks, batch_size,
                   i, ret, invocations, batches, submitted, completed>>

\* one iteration of "for future in as_completed(futures)": future.result()
\* re-raises what the job raised, else the outcome is appended
AsCompleted(j) ==
    /\ pc = "as_completed"
    /\ Completed(j)
    /\ jobs' = [jobs EXCEPT ![j].collected = TRUE]
    /\ IF jobs[j].result.kind = "raised"
       THEN /\ ret' = ThreadExcept
            /\ pc' = "executor_exit"
            /\ UNCHANGED results
       ELSE /\ results' = Append(results, jobs[j].result)
            /\ UNCHANGED <<ret, pc>>
    /\ UNCHANGED <<mainvars, max_workers, agents, prev, method, task, tasks, batch_size,
                   i, invocations, batches, submitted, completed>>

\* variant: "return results" sits inside the loop over as_completed
AsCompletedEnd_Early ==
    /\ pc = "as_completed"
    /\ ret' = ReturnList(results)
    /\ pc' = "executor_exit"
    /\ UNCHANGED <<mainvars, max_workers, agents, prev, method, task, tasks, batch_size,
                   i, jobs, results, invocations, batches, submitted, completed>>

\* as_completed is exhausted: the with block is left with "return results"
AsCompletedEnd ==
    /\ pc = "as_completed"
    /\ \A j \in 1..Len(jobs) : jobs[j].collected
    /\ ret' = ReturnList(results)
    /\ pc' = "executor_exit"
    /\ UNCHANGED <<mainvars, max_workers, agents, prev, method, task, tasks, batch_size,
                   i, jobs, results, invocations, batches, submitted, completed>>

\* ThreadPoolExecutor.__exit__ is shutdown(wait=True): the call returns
\* once every submitted future is done
ExecutorJoined == AllDone

ExecutorExit ==
    /\ pc = "executor_exit"
    /\ ExecutorJoined
    /\ pc' = "returned"
    /\ UNCHANGED <<mainvars, max_workers, agents, prev, method, task, tasks, batch_size,
                   i, jobs, results, ret, invocations, batches, submitted, completed,
          prev>>

\* ------------------------------------------------------------ batched_run
\* variant: a zero step is taken as an empty range
RangeRaises_Never(k) == FALSE

\* range(0, len(tasks), batch_size) raises ValueError for a zero step
RangeRaises(k) == k = 0

\* whether index n is produced by range(0, m, k)
InRange(n, m, k) == IF k > 0 THEN n < m ELSE n > m

BatchedRunEnter ==
    /\ pc = "batched_run"
    /\ IF RangeRaises(batch_size)
       THEN Return(BatchedRunExcept)
       ELSE pc' = "batch_loop" /\ UNCHANGED ret
    /\ UNCHANGED <<mainvars, max_workers, agents, prev, method, task, tasks, batch_size,
                   i, jobs, results, invocations, batches, submitted, completed>>

\* tasks[i : i + batch_size]
Batch(ts, n, k) == SubSeq(ts, n + 1, Min(n + k, Len(ts)))

\* one more batch: the pool is built and pool.map submits the batch
BatchStart ==
    /\ pc = "batch_loop"
    /\ InRange(i, Len(tasks), batch_size)
    /\ IF PoolRaises(max_workers)
       THEN Return(BatchedRunExcept) /\ UNCHANGED <<jobs, batches, submitted>>
       ELSE /\ jobs' = [n \in 1..Len(Batch(tasks, i, batch_size)) |->
                          Job(Batch(tasks, i, batch_size)[n])]
            /\ submitted' = submitted + Len(Batch(tasks, i, batch_size))
            /\ batches' = Append(batches, Batch(tasks, i, batch_size))
            /\ pc' = "pool_map"
            /\ UNCHANGED ret
    /\ UNCHANGED <<mainvars, max_workers, agents, prev, method, task, tasks, batch_size,
                   i, results, invocations, completed>>

\* variant: the map does not block (map_async without a wait)
BatchEnd_NoWait ==
    /\ pc = "pool_map"
    /\ results' = results \o [j \in 1..Len(jobs) |-> jobs[j].result]
    /\ i' = i + batch_size
    /\ pc' = "batch_loop"
    /\ UNCHANGED <<mainvars, max_workers, agents, prev, method, task, tasks, batch_size,
                   jobs, ret, invocations, batches, submitted, completed>>

\* pool.map returns the outcomes in input order; results.extend
BatchEnd ==
    /\ pc = "pool_map"
    /\ AllDone
    /\ IF \E j \in 1..Len(jobs) : jobs[j].result.kind = "raised"
       THEN Return(BatchedRunExcept) /\ UNCHANGED <<results, i>>
       ELSE /\ results' = results \o [j \in 1..Len(jobs) |-> jobs[j].result]
            /\ i' = i + batch_size
            /\ pc' = "batch_loop"
            /\ UNCHANGED ret
    /\ UNCHANGED <<mainvars, max_workers, agents, prev, method, task, tasks, batch_size,
                   jobs, invocations, batches, submitted, completed>>

\* the range is exhausted: "return results"
BatchedRunReturn ==
    /\ pc = "batch_loop"
    /\ ~InRange(i, Len(tasks), batch_size)
    /\ Return(ReturnList(results))
    /\ UNCHANGED <<mainvars, max_workers, agents, prev, method, task, tasks, batch_size,
                   i, jobs, results, invocations, batches, submitted, completed>>

\* ------------------------------------------------------------------- next
Next ==
    \/ CallRun
    \/ CallAsyncRun
    \/ CallBatchedRun
    \/ CallConcurrentRun
    \/ RunSubmit
    \/ RunJoin
    \/ \E j \in 1..Len(jobs) : JobStart(j)
    \/ \E j \in 1..Len(jobs) : JobFinish(j)
    \/ AsyncRunSubmit
    \/ ConcurrentRunSubmit
    \/ \E j \in 1..Len(jobs) : AsCompleted(j)
    \/ AsCompletedEnd
    \/ ExecutorExit
    \/ BatchedRunEnter
    \/ BatchStart
    \/ BatchEnd
    \/ BatchedRunReturn

Spec == Init /\ [][Next]_vars

\* the steps inside a dispatch call: the calling thread and the pool's
\* workers are scheduled by the operating system and keep running
Progress ==
    \/ RunSubmit
    \/ RunJoin
    \/ \E j \in 1..Len(jobs) : JobStart(j)
    \/ \E j \in 1..Len(jobs) : JobFinish(j)
    \/ AsyncRunSubmit
    \/ ConcurrentRunSubmit
    \/ \E j \in 1..Len(jobs) : AsCompleted(j)
    \/ AsCompletedEnd
    \/ ExecutorExit
    \/ BatchedRunEnter
    \/ BatchStart
    \/ BatchEnd
    \/ BatchedRunReturn

FairSpec == Init /\ [][Next]_vars /\ WF_vars(Progress)

\* ------------------------------------------- generator scripts: main()
\* the class list of each script's main
Classes(sc) ==
    IF sc = "auto_docs"
    THEN <<"MajorityVoting", "StackOverflowSwarm", "TaskQueueBase">>
    ELSE <<"DictInternalMemory", "DictSharedMemory">>

\* no workflow object takes part in a script
MainInit ==
    /\ script \in {"auto_docs", "auto_tests"}
    /\ threads = <<>>
    /\ joined = 0
    /\ main_pc = "start"
    /\ max_workers = NoneLimit
    /\ agents = NoneAgents
    /\ pc = "idle"
    /\ method = "none"
    /\ task = [id |-> 0, has_timeout |-> FALSE]
    /\ tasks = <<>>
    /\ batch_size = 0
    /\ i = 0
    /\ jobs = <<>>
    /\ results = <<>>
    /\ ret = Pending
    /\ invocations = [a \in {} |-> 0]
    /\ batches = <<>>
    /\ submitted = 0
    /\ completed = 0
    /\ prev = NoPrev

\* "for cls in classes": the thread is made, appended and started
MainStart ==
    /\ main_pc = "start"
    /\ Len(threads) < Len(Classes(script))
    /\ threads' = Append(threads, [cls |-> Classes(script)[Len(threads) + 1],
                                   state |-> "generating"])
    /\ UNCHANGED <<wfvars, script, joined, main_pc>>

\* the class list is exhausted
MainStartEnd ==
    /\ main_pc = "start"
    /\ Len(threads) = Len(Classes(script))
    /\ main_pc' = "join"
    /\ UNCHANGED <<wfvars, script, threads, joined>>

\* the thread's target: the model call returns and the file is written
ThreadGenerate(t) ==
    /\ threads[t].state = "generating"
    /\ threads' = [threads EXCEPT ![t].state = "writing"]
    /\ UNCHANGED <<wfvars, script, joined, main_pc>>

\* the model call or the file write raises: the thread ends
ThreadFail(t) ==
    /\ threads[t].state \in {"generating", "writing"}
    /\ threads' = [threads EXCEPT ![t].state = "failed"]
    /\ UNCHANGED <<wfvars, script, joined, main_pc>>

ThreadWrite(t) ==
    /\ threads[t].state = "writing"
    /\ threads' = [threads EXCEPT ![t].state = "finished"]
    /\ UNCHANGED <<wfvars, script, joined, main_pc>>

\* the thread has ended, by returning or by raising
Ended(t) == threads[t].state \in {"finished", "failed"}

\* variant: join returns at once (join with a zero timeout)
MainJoin_NoWait ==
    /\ main_pc = "join"
    /\ joined < Len(threads)
    /\ joined' = joined + 1
    /\ UNCHANGED <<wfvars, script, threads, main_pc>>

\* "for thread in threads: thread.join()"
MainJoin ==
    /\ main_pc = "join"
    /\ joined < Len(threads)
    /\ Ended(joined + 1)
    /\ joined' = joined + 1
    /\ UNCHANGED <<wfvars, script, threads, main_pc>>

\* the final print; main returns
MainPrint ==
    /\ main_pc = "join"
    /\ joined = Len(threads)
    /\ main_pc' = "done"
    /\ UNCHANGED <<wfvars, script, threads, joined>>

MainNext ==
    \/ MainStart
    \/ MainStartEnd
    \/ \E t \in 1..Len(threads) : ThreadGenerate(t)
    \/ \E t \in 1..Len(threads) : ThreadFail(t)
    \/ \E t \in 1..Len(threads) : ThreadWrite(t)
    \/ MainJoin
    \/ MainPrint

MainSpec == MainInit /\ [][MainNext]_vars

\* ================================================================ claims
N == Len(agents.list)
M == Len(tasks)
Returned(m) == pc = "returned" /\ method = m
LimitValid == max_workers.none \/ max_workers.n >= 1
Count(s, kind) == Cardinality({n \in 1..Len(s) : s[n].kind = kind})
Failing == {a \in 1..N : AgentRunRaises(agents.list[a], task.id)}
CeilDiv(a, b) == (a + b - 1) \div b

\* C1: for a worker set of size N, a task without a timeout and a pool that
\* could be built, run returns a sequence (not None) of at most N entries,
\* with a failure marker for a worker that fails.
C1_RunReturnsSequence ==
    (Returned("run") /\ ~agents.none /\ ~task.has_timeout /\ LimitValid)
        => /\ ret.kind = "list"
           /\ Len(ret.list) <= N
           /\ (Failing # {} => Count(ret.list, "None") >= 1)

\* C2: when async_run fans a task out over N workers of which exactly f
\* fail, the returned sequence holds exactly f failure markers and N-f
\* success values.
C2_FailureIsolation ==
    (Returned("async_run") /\ ret.kind = "list")
        => /\ Count(ret.list, "None") = Cardinality(Failing)
           /\ Count(ret.list, "value") = N - Cardinality(Failing)

\* C3: concurrent_run(tasks) with len(tasks) = M always returns a sequence
\* of exactly M entries.
C3_ConcurrentRunLength ==
    Returned("concurrent_run") => (ret.kind = "list" /\ Len(ret.list) = M)

\* C4: batched_run with batch_size k >= 1 processes ceil(M/k) batches, batch
\* b being tasks[b*k : (b+1)*k], and returns exactly M entries, entry j
\* being the outcome for tasks[j].
C4_BatchedRunOrder ==
    (Returned("batched_run") /\ batch_size >= 1)
        => /\ ret.kind = "list"
           /\ Len(ret.list) = M
           /\ \A j \in 1..M : ret.list[j] = execute_task(agents, tasks[j]).result
           /\ Len(batches) = CeilDiv(M, batch_size)
           /\ \A b \in 1..Len(batches) :
                 batches[b] = SubSeq(tasks, (b - 1) * batch_size + 1,
                                     Min(b * batch_size, M))

\* C5: no failure crosses the executor or dispatcher boundary as a raised
\* error: a finished job holds a value or the failure marker, and a call that
\* returned yields a sequence or None.
C5_NoRaise ==
    /\ \A j \in 1..Len(jobs) : jobs[j].result.kind \in {"value", "None"}
    /\ ret.kind \in {"pending", "list", "None"}
    /\ (pc = "returned" => ret.kind \in {"list", "None"})

\* a call returned a sequence in which a worker's failure became a marker
C5_Witness ==
    /\ Returned("concurrent_run")
    /\ ret.kind = "list"
    /\ \E j \in 1..Len(jobs) :
          /\ \E a \in 1..N : AgentRunRaises(agents.list[a], jobs[j].task)
          /\ jobs[j].result = None

\* C6: the concurrency limit held by a constructed workflow is >= 1.
C6_LimitAtLeastOne == ~max_workers.none /\ max_workers.n >= 1

\* C7: with an empty worker set and a valid concurrency limit every dispatch
\* method (batched_run with a batch size >= 1) returns an empty sequence.
C7_EmptyWorkerSet ==
    (pc = "returned" /\ ~agents.none /\ N = 0 /\ LimitValid
        /\ (method = "batched_run" => batch_size >= 1))
        => ret = ReturnList(<<>>)

\* C8: with a concurrency limit of zero at dispatch time run returns None,
\* whatever the size of the worker set, and no job is executed.
C8_RunZeroLimit ==
    (Returned("run") /\ ~max_workers.none /\ max_workers.n = 0)
        => /\ ret = ReturnNone
           /\ submitted = 0
           /\ completed = 0
           /\ \A a \in DOMAIN invocations : invocations[a] = 0

\* run returned with a zero limit and an empty worker set
C8_Witness ==
    /\ Returned("run")
    /\ ~max_workers.none /\ max_workers.n = 0
    /\ ~agents.none /\ N = 0

\* C9: fanning one task out over N workers (run, async_run) invokes every
\* worker's run exactly once.
C9_OneAttemptPerWorker ==
    (pc = "returned" /\ method \in {"run", "async_run"} /\ ret.kind = "list")
        => \A a \in 1..N : invocations[a] = 1

\* C10: when a dispatch method has returned every job it submitted is done,
\* and no outcome is collected before its job finished.
C10_JoinSemantics ==
    /\ pc = "returned" => (AllDone /\ completed = submitted)
    /\ \A j \in 1..Len(jobs) : jobs[j].collected => jobs[j].state = "done"
    /\ Len(results) <= completed

\* async_run returned the outcomes of two jobs
C10_Witness ==
    /\ Returned("async_run")
    /\ Len(jobs) >= 2
    /\ Len(ret.list) = Len(jobs)

Collected == {j \in 1..Len(jobs) : jobs[j].collected}

\* C11: in every state of a dispatch call the collected entries are at most
\* the completed jobs, which are at most the submitted jobs; every collected
\* job contributes exactly one entry, a failure marker when it failed; a
\* returned sequence holds one entry per submitted job.
C11_CollectorInvariant ==
    /\ Len(results) <= completed
    /\ completed <= submitted
    /\ method \in {"async_run", "concurrent_run"}
          => /\ Len(results) = Cardinality(Collected)
             /\ Count(results, "None")
                   = Cardinality({j \in Collected : jobs[j].result.kind = "None"})
    /\ (pc = "returned" /\ ret.kind = "list")
          => (Len(ret.list) = completed /\ completed = submitted)

\* a returned sequence holds a failure marker next to a success value
C11_Witness ==
    /\ Returned("concurrent_run")
    /\ ret.kind = "list"
    /\ Count(ret.list, "None") >= 1
    /\ Count(ret.list, "value") >= 1

\* C12: in run with a task that carries a timeout, the jobs that do not
\* exceed it run to completion and contribute their outcomes to the returned
\* sequence (no run of a worker outlasts a timeout here, so all N jobs do).
C12_TimeoutSiblingsContribute ==
    (Returned("run") /\ task.has_timeout /\ LimitValid /\ ~agents.none /\ N >= 1)
        => /\ ret.kind = "list"
           /\ Len(ret.list) = N
           /\ completed = N

\* the two sequences hold the same values the same number of times
SameBag(s1, s2) ==
    /\ Len(s1) = Len(s2)
    /\ \A n \in 1..Len(s1) :
          Cardinality({k \in 1..Len(s1) : s1[k] = s1[n]})
             = Cardinality({k \in 1..Len(s2) : s2[k] = s1[n]})

\* C13: an async_run call with the same workers and the same task as the
\* async_run call before it returns a sequence of the same length and the
\* same multiset of values, whatever the order in which the jobs complete.
C13_AsyncRunIdempotent ==
    (Returned("async_run") /\ prev.set /\ prev.task = task)
        => /\ ret.kind = prev.ret.kind
           /\ SameBag(ret.list, prev.ret.list)

\* a second async_run call with the same task returned two entries
C13_Witness ==
    /\ Returned("async_run")
    /\ prev.set /\ prev.task = task
    /\ ret.kind = "list"
    /\ Len(ret.list) >= 2

Done == {j \in 1..Len(jobs) : jobs[j].state = "done"}

\* C14: while a batch of batched_run is in the pool, every task of the
\* earlier batches has finished and its output is in the result sequence, and
\* the batch in the pool is the next slice of the task list.
C14_BatchBarrier ==
    (method = "batched_run" /\ pc = "pool_map")
        => /\ Len(results) = i
           /\ completed = i + Cardinality(Done)
           /\ Len(batches) = (i \div batch_size) + 1
           /\ batches[Len(batches)] = SubSeq(tasks, i + 1, Min(i + batch_size, M))
           /\ Len(jobs) = Len(batches[Len(batches)])
           /\ \A j \in 1..Len(jobs) : jobs[j].task = tasks[i + j]

\* a task of the second batch is executing
C14_Witness ==
    /\ method = "batched_run"
    /\ pc = "pool_map"
    /\ Len(batches) = 2
    /\ \E j \in 1..Len(jobs) : jobs[j].state = "running"

\* the workers before a all return on task t
Reached(a, t) == \A b \in 1..(a - 1) : ~AgentRunRaises(agents.list[b], t)

\* C15: one execute_task call iterates the worker set in order: when no
\* worker fails on the task the job yields the last worker's result; when
\* worker a fails the job yields None and no worker after a is invoked.
C15_ExecuteTaskLoop ==
    (~agents.none /\ N >= 1)
        => /\ \A j \in Done :
                 IF \A a \in 1..N : ~AgentRunRaises(agents.list[a], jobs[j].task)
                 THEN jobs[j].result = Value(N, jobs[j].task)
                 ELSE jobs[j].result = None
           /\ method \in {"async_run", "concurrent_run"}
                 => \A a \in 1..N :
                       invocations[a]
                          = Cardinality({j \in Done : Reached(a, jobs[j].task)})

\* a job yielded None after the first of two workers failed, and the second
\* worker was never invoked
C15_Witness ==
    /\ ~agents.none /\ N = 2
    /\ method = "async_run"
    /\ \E j \in Done : jobs[j].result = None
    /\ AgentRunRaises(agents.list[1], task.id)
    /\ invocations[1] >= 1
    /\ invocations[2] = 0

\* C16: during async_run, concurrent_run and each batch of batched_run at
\* most max_workers jobs are executing at any moment (the pool's default
\* size when max_workers is None); the other submitted jobs wait.
C16_ConcurrencyBound ==
    method \in {"async_run", "concurrent_run", "batched_run"}
        => /\ ~max_workers.none => Cardinality(Running) <= max_workers.n
           /\ (max_workers.none /\ method = "batched_run")
                 => Cardinality(Running) <= CpuCount
           /\ (max_workers.none /\ method # "batched_run")
                 => Cardinality(Running) <= Min(32, CpuCount + 4)

\* the pool is full and a submitted job waits for a slot
C16_Witness ==
    /\ method = "concurrent_run"
    /\ ~max_workers.none
    /\ Cardinality(Running) = max_workers.n
    /\ \E j \in 1..Len(jobs) : jobs[j].state = "pending"

InCall == pc \notin {"idle", "returned"}

\* C17: with a concurrency limit >= 1 (or the pool's default) and worker runs
\* that terminate, every dispatch call eventually returns, also when more
\* jobs were submitted than the pool runs at a time.
C17_Termination == (LimitValid /\ InCall) ~> (pc = "returned")

\* a call that submitted more jobs than the pool runs at a time returned
C17_Witness ==
    /\ Returned("concurrent_run")
    /\ ~max_workers.none /\ max_workers.n >= 1
    /\ Len(jobs) > max_workers.n
    /\ Len(ret.list) = Len(jobs)

\* C18: main starts exactly one thread per class of its class list, in list
\* order, and prints the final message only after every started thread has
\* ended.
C18_MainJoinsAll ==
    /\ Len(threads) <= Len(Classes(script))
    /\ \A t \in 1..Len(threads) : threads[t].cls = Classes(script)[t]
    /\ main_pc \in {"join", "done"} => Len(threads) = Len(Classes(script))
    /\ main_pc = "done" => \A t \in 1..Len(threads) : Ended(t)

\* the final message of auto_docs is printed with its three threads ended
C18_Witness ==
    /\ script = "auto_docs"
    /\ main_pc = "done"
    /\ Len(threads) = 3
    /\ \E t \in 1..3 : threads[t].state = "finished"

NoInvocation == \A a \in DOMAIN invocations : invocations[a] = 0

C20_Original ==
    Returned("batched_run")
        => /\ batch_size = 0 => ret = ReturnNone
           /\ batch_size < 0 => (ret = ReturnList(<<>>) /\ submitted = 0 /\ NoInvocation)
           /\ (ret.kind = "list" /\ Len(ret.list) = M) => batch_size >= 1

\* C20: batched_run returns None for batch_size = 0 whatever the task list,
\* an empty sequence without executing a task for batch_size < 0, and for a
\* non-empty task list as many entries as tasks only when batch_size >= 1.
C20_BatchSizeEdges ==
    Returned("batched_run")
        => /\ batch_size = 0 => ret = ReturnNone
           /\ batch_size < 0 => (ret = ReturnList(<<>>) /\ submitted = 0 /\ NoInvocation)
           /\ (ret.kind = "list" /\ Len(ret.list) = M /\ M >= 1) => batch_size >= 1

\* a negative batch size returned an empty sequence for a non-empty list
C20_Witness ==
    /\ Returned("batched_run")
    /\ batch_size < 0
    /\ M >= 1
    /\ ret = ReturnList(<<>>)

====
